---- MODULE Spec2Model ----
(***************************************************************************)
(* Model of two parts of the twenty-first repository:                      *)
(*   - the Triton VM JumpStackTable / ExtJumpStackTable                     *)
(*     (src/src/shared_math/stark/triton/table/jump_stack_table.rs)        *)
(*   - the LevelDB-backed DatabaseVector                                   *)
(*     (src/twenty-first/src/util_types/database_vector.rs)                *)
(***************************************************************************)
EXTENDS Integers, Sequences, FiniteSets, TLC

VARIABLES
    table,        \* the prover-side JumpStackTable (its BaseTable), or NoTable
    pargs,        \* the arguments new_prover was called with
    prePad,       \* the trace as it was when the latest pad() was entered
    padCalls,     \* number of pad() calls made on `table`
    verifier,     \* the verifier-side JumpStackTable, or NoTable
    vargs,        \* the arguments new_verifier was called with
    ext,          \* an ExtJumpStackTable, or NoTable
    extPre,       \* the extended trace as it was when the latest ExtPad was entered
    extended,     \* what the latest extend() call returned, or NoTable
    eargs,        \* the arguments of the latest extend() call
    extendCalls,  \* number of extend() calls made on `table`
    outcome,      \* how the latest operation on a table ended
    db,           \* DatabaseVector.db: the key-value store, keys and values are byte strings
    debug_assertions, \* whether the build compiles debug_assert! in
    dbOp          \* the latest DatabaseVector operation, its arguments and its result

jsVars == <<table, pargs, prePad, padCalls, verifier, vargs>>
extVars == <<ext, extPre, extended, eargs, extendCalls, outcome>>
dbVars == <<db, debug_assertions, dbOp>>
vars == <<table, pargs, prePad, padCalls, verifier, vargs,
          ext, extPre, extended, eargs, extendCalls, outcome,
          db, debug_assertions, dbOp>>

(***************************************************************************)
(* Bounds of the model.                                                    *)
(***************************************************************************)
MaxRows == 5      \* longest execution trace handed to new_prover
MaxCalls == 2     \* how often pad() / extend() are called on one table
MaxLen == 2       \* longest DatabaseVector

NoTable == [none |-> "table"]
NoArgs == [none |-> "args"]
NoOutcome == [op |-> "none", result |-> "none"]
NoOp == [op |-> "none"]
EmptyDB == [k \in {} |-> <<>>]   \* a store holding no key

(***************************************************************************)
(* Field arithmetic.  BFieldElement is a prime field; the prime of the     *)
(* repository (2^64 - 2^32 + 1) is replaced by a small prime p with        *)
(* 32 | p - 1, so that roots of unity of every order up to 32 exist.       *)
(***************************************************************************)
FieldPrime == 97
FieldGenerator == 5   \* a generator of the multiplicative group mod 97

BAdd(a, b) == (a + b) % FieldPrime
BSub(a, b) == (a + FieldPrime - b) % FieldPrime
BMul(a, b) == (a * b) % FieldPrime

RECURSIVE BPow(_, _)
BPow(a, e) ==
    IF e = 0 THEN 1
    ELSE IF e % 2 = 0 THEN BPow(BMul(a, a), e \div 2)
    ELSE BMul(a, BPow(BMul(a, a), e \div 2))

\* `x as u32`: keeps the low 32 bits (two 16-bit limbs).
AsU32(n) == (n % 65536) + 65536 * ((n \div 65536) % 65536)

\* BFieldElement::from(u32)
BFieldFromU32(n) == n % FieldPrime

\* other::is_power_of_two
RECURSIVE is_power_of_two(_)
is_power_of_two(n) ==
    IF n = 0 THEN FALSE
    ELSE IF n = 1 THEN TRUE
    ELSE n % 2 = 0 /\ is_power_of_two(n \div 2)

\* other::roundup_npo2: the smallest power of two >= n
RECURSIVE roundup_npo2(_)
roundup_npo2(n) == IF is_power_of_two(n) THEN n ELSE roundup_npo2(n + 1)

\* base_table::pad_height
pad_height(height) == IF height = 0 THEN 0 ELSE roundup_npo2(height)

\* base_table::derive_omicron: a root of unity of order exactly padded_height
derive_omicron(padded_height, dummy) ==
    IF padded_height = 0 THEN 1
    ELSE BPow(FieldGenerator, (FieldPrime - 1) \div padded_height)

(***************************************************************************)
(* JumpStackTable                                                          *)
(***************************************************************************)
BASE_WIDTH == 4
FULL_WIDTH == 5
CLK == 1          \* JumpStackTableColumn::CLK as usize, plus 1 (sequences start at 1)

\* BaseTable::new and its getters: a BaseTable is the record of its fields.
BaseTable_new(w, ph, nr, om, gen, ord, m) ==
    [width |-> w, padded_height |-> ph, num_randomizers |-> nr, omicron |-> om,
     generator |-> gen, order |-> ord, matrix |-> m]

new_verifier_swapped(generator, order, num_randomizers, padded_height) ==
    BaseTable_new(BASE_WIDTH, num_randomizers, padded_height,
                  derive_omicron(padded_height, generator), generator, order, <<>>)

new_verifier(generator, order, num_randomizers, padded_height) ==
    LET matrix == <<>>
        dummy == generator
        omicron == derive_omicron(padded_height, dummy)
    IN BaseTable_new(BASE_WIDTH, padded_height, num_randomizers, omicron,
                     generator, order, matrix)

new_prover(generator, order, num_randomizers, matrix) ==
    LET unpadded_height == Len(matrix)
        padded_height == pad_height(unpadded_height)
        dummy == generator
        omicron == derive_omicron(padded_height, dummy)
    IN BaseTable_new(BASE_WIDTH, padded_height, num_randomizers, omicron,
                     generator, order, matrix)

\* pad() with the loop body run once instead of until a power of two is reached
padOnce(data) ==
    IF Len(data) # 0 /\ ~is_power_of_two(Len(data))
    THEN Append(data, [data[Len(data)] EXCEPT
                         ![CLK] = BFieldFromU32(AsU32(Len(data) - 1))])
    ELSE data

\* pad() as a do-while loop: a non-empty trace always gets one more row first
RECURSIVE padLoopAfterFirst(_)
padLoopAfterFirst(data) ==
    IF Len(data) # 0 /\ ~is_power_of_two(Len(data))
    THEN padLoopAfterFirst(Append(data, [data[Len(data)] EXCEPT
                         ![CLK] = BFieldFromU32(AsU32(Len(data) - 1))]))
    ELSE data

padDoWhile(data) ==
    IF Len(data) = 0 THEN data
    ELSE padLoopAfterFirst(Append(data, [data[Len(data)] EXCEPT
                         ![CLK] = BFieldFromU32(AsU32(Len(data) - 1))]))

\* pad() with the clock of a padding row taken from the length itself
RECURSIVE padClkLen(_)
padClkLen(data) ==
    IF Len(data) # 0 /\ ~is_power_of_two(Len(data))
    THEN padClkLen(Append(data, [data[Len(data)] EXCEPT
                         ![CLK] = BFieldFromU32(AsU32(Len(data)))]))
    ELSE data

\* impl Table<BWord> for JumpStackTable :: pad, on the table's data
RECURSIVE pad(_)
pad(data) ==
    IF Len(data) # 0 /\ ~is_power_of_two(Len(data))
    THEN LET padding_row == [data[Len(data)] EXCEPT
                               ![CLK] = BFieldFromU32(AsU32(Len(data) - 1))]
         IN pad(Append(data, padding_row))
    ELSE data

(***************************************************************************)
(* Multivariate polynomials over two adjacent rows: a polynomial is a      *)
(* sequence of terms, a term a coefficient and one exponent per variable   *)
(* (variables 1..BASE_WIDTH are the current row, the rest the next row).   *)
(***************************************************************************)
RECURSIVE EvalMonomial(_, _, _)
EvalMonomial(exps, point, k) ==
    IF k = 0 THEN 1
    ELSE BMul(BPow(point[k], exps[k]), EvalMonomial(exps, point, k - 1))

RECURSIVE EvalTerms(_, _, _)
EvalTerms(poly, point, k) ==
    IF k = 0 THEN 0
    ELSE BAdd(BMul(poly[k].coef, EvalMonomial(poly[k].exps, point, Len(point))),
              EvalTerms(poly, point, k - 1))

\* MPolynomial::evaluate
MPolyEvaluate(poly, point) == EvalTerms(poly, point, Len(poly))

\* a table that declares clk' - clk - 1 = 0 as its one transition constraint
clkIncrementConstraints(t) ==
    << << [coef |-> 1, exps |-> <<0, 0, 0, 0, 1, 0, 0, 0>>],
          [coef |-> FieldPrime - 1, exps |-> <<1, 0, 0, 0, 0, 0, 0, 0>>],
          [coef |-> FieldPrime - 1, exps |-> <<0, 0, 0, 0, 0, 0, 0, 0>>] >> >>

\* impl Table<BWord> for JumpStackTable :: base_transition_constraints
base_transition_constraints(t) == <<>>

(***************************************************************************)
(* Inputs.                                                                 *)
(***************************************************************************)
Generators == {7}
Orders == {16, 32}
Randomizers == {0, 1}
JspVals == {0, 1}

\* a row of the execution trace: clk, jsp, jso, jsd
TraceRow(clk, jsp) == <<clk, jsp, jsp + 2, 2 * jsp + 5>>

Traces ==
    UNION { { [i \in 1..n |-> TraceRow(i - 1, f[i])] : f \in [1..n -> JspVals] }
            : n \in 0..MaxRows }

PaddedHeights == { pad_height(n) : n \in 0..MaxRows }

Init ==
    /\ table = NoTable
    /\ pargs = NoArgs
    /\ prePad = <<>>
    /\ padCalls = 0
    /\ verifier = NoTable
    /\ vargs = NoArgs
    /\ ext = NoTable
    /\ extPre = <<>>
    /\ extended = NoTable
    /\ eargs = NoArgs
    /\ extendCalls = 0
    /\ outcome = NoOutcome
    /\ db = EmptyDB
    /\ debug_assertions = TRUE
    /\ dbOp = NoOp

NewProver ==
    /\ table = NoTable
    /\ \E generator \in Generators, order \in Orders,
          num_randomizers \in Randomizers, matrix \in Traces :
          /\ table' = new_prover(generator, order, num_randomizers, matrix)
          /\ pargs' = [generator |-> generator, order |-> order,
                       num_randomizers |-> num_randomizers, matrix |-> matrix]
    /\ UNCHANGED <<prePad, padCalls, verifier, vargs>>
    /\ UNCHANGED extVars
    /\ UNCHANGED dbVars

Pad ==
    /\ table # NoTable
    /\ padCalls < MaxCalls
    /\ table' = [table EXCEPT !.matrix = pad(table.matrix)]
    /\ prePad' = table.matrix
    /\ padCalls' = padCalls + 1
    /\ UNCHANGED <<pargs, verifier, vargs>>
    /\ UNCHANGED extVars
    /\ UNCHANGED dbVars

NewVerifier ==
    /\ verifier = NoTable
    /\ \E generator \in Generators, order \in Orders,
          num_randomizers \in Randomizers, padded_height \in PaddedHeights :
          /\ verifier' = new_verifier(generator, order, num_randomizers, padded_height)
          /\ vargs' = [generator |-> generator, order |-> order,
                       num_randomizers |-> num_randomizers,
                       padded_height |-> padded_height]
    /\ UNCHANGED <<table, pargs, prePad, padCalls>>
    /\ UNCHANGED extVars
    /\ UNCHANGED dbVars

Next == NewProver \/ Pad \/ NewVerifier

Spec == Init /\ [][Next]_vars

(***************************************************************************)
(* XFieldElement: the cubic extension of the base field by a root of       *)
(* x^3 - x + 1; an element is the triple of its coefficients.              *)
(***************************************************************************)
XLift(a) == <<a % FieldPrime, 0, 0>>
XSub(a, b) == <<BSub(a[1], b[1]), BSub(a[2], b[2]), BSub(a[3], b[3])>>
XAdd(a, b) == <<BAdd(a[1], b[1]), BAdd(a[2], b[2]), BAdd(a[3], b[3])>>
XMul(a, b) ==
    LET c0 == BMul(a[1], b[1])
        c1 == BAdd(BMul(a[1], b[2]), BMul(a[2], b[1]))
        c2 == BAdd(BAdd(BMul(a[1], b[3]), BMul(a[2], b[2])), BMul(a[3], b[1]))
        c3 == BAdd(BMul(a[2], b[3]), BMul(a[3], b[2]))
        c4 == BMul(a[3], b[3])
    IN <<BSub(c0, c3), BSub(BAdd(c1, c3), c4), BAdd(c2, c4)>>

(***************************************************************************)
(* Extension: JumpStackTable::extend and ExtJumpStackTable.                *)
(***************************************************************************)
\* JumpStackTableChallenges
JumpStackTableChallenges(perm_row, clk, ci, jsp, jso, jsd) ==
    [processor_perm_row_weight |-> XLift(perm_row),
     clk_weight |-> XLift(clk), ci_weight |-> XLift(ci), jsp_weight |-> XLift(jsp),
     jso_weight |-> XLift(jso), jsd_weight |-> XLift(jsd)]

\* JumpStackTableInitials
JumpStackTableInitials(perm_initial) == [processor_perm_initial |-> XLift(perm_initial)]

AllChallenges ==
    { JumpStackTableChallenges(13, 2, 3, 5, 7, 11),
      JumpStackTableChallenges(4, 1, 1, 2, 3, 5) }

AllInitials == { JumpStackTableInitials(1), JumpStackTableInitials(6) }

\* JumpStackTable::extend: the body is todo!(), which panics on every call
extend(self, all_challenges, all_initials) ==
    [extended |-> NoTable, result |-> "panic: not yet implemented"]

\* a row of an extended trace: FULL_WIDTH extension-field elements
ExtRow(v) == [c \in 1..FULL_WIDTH |-> XLift(v + c)]

ExtTraces == { <<>>, <<ExtRow(0)>>, <<ExtRow(0), ExtRow(1), ExtRow(2)>> }

\* an ExtJumpStackTable whose pad() pads the way the base table's does
RECURSIVE padRepeatLast(_)
padRepeatLast(data) ==
    IF Len(data) # 0 /\ ~is_power_of_two(Len(data))
    THEN padRepeatLast(Append(data, data[Len(data)]))
    ELSE data

ext_pad_like_base(self) ==
    [table |-> [self EXCEPT !.matrix = padRepeatLast(self.matrix)],
     result |-> "returned"]

\* impl Table<XFieldElement> for ExtJumpStackTable :: pad
ext_pad(self) ==
    [table |-> self, result |-> "panic: Extension tables don't get padded"]

Extend ==
    /\ table # NoTable
    /\ extendCalls < MaxCalls
    /\ \E all_challenges \in AllChallenges, all_initials \in AllInitials :
          LET r == extend(table, all_challenges, all_initials)
          IN /\ extended' = r.extended
             /\ outcome' = [op |-> "extend", result |-> r.result]
             /\ eargs' = [challenges |-> all_challenges, initials |-> all_initials,
                          matrix |-> table.matrix]
    /\ extendCalls' = extendCalls + 1
    /\ UNCHANGED <<ext, extPre>>
    /\ UNCHANGED jsVars
    /\ UNCHANGED dbVars

\* an ExtJumpStackTable { base } holding some extended trace
NewExt ==
    /\ ext = NoTable
    /\ \E generator \in Generators, matrix \in ExtTraces :
          ext' = BaseTable_new(FULL_WIDTH, pad_height(Len(matrix)), 0,
                               derive_omicron(pad_height(Len(matrix)), generator),
                               generator, 16, matrix)
    /\ UNCHANGED <<extPre, extended, eargs, extendCalls, outcome>>
    /\ UNCHANGED jsVars
    /\ UNCHANGED dbVars

ExtPad ==
    /\ ext # NoTable
    /\ LET r == ext_pad(ext)
       IN /\ ext' = r.table
          /\ outcome' = [op |-> "ext_pad", result |-> r.result]
    /\ extPre' = ext.matrix
    /\ UNCHANGED <<extended, eargs, extendCalls>>
    /\ UNCHANGED jsVars
    /\ UNCHANGED dbVars

NextExt == NewProver \/ Pad \/ Extend \/ NewExt \/ ExtPad

SpecExt == Init /\ [][NextExt]_vars

(***************************************************************************)
(* DatabaseVector: a vector kept in a key-value store.  Keys and values    *)
(* are byte strings; the store is a function from its keys to its values.  *)
(***************************************************************************)
None == <<>>
Some(x) == <<x>>

LENGTH_KEY == <<0>>
INDEX_ZERO == 0

\* bincode::serialize of a u64: 8 bytes, least significant first
RECURSIVE LittleEndian(_, _)
LittleEndian(n, k) ==
    IF k = 0 THEN <<>> ELSE <<n % 256>> \o LittleEndian(n \div 256, k - 1)

bincode_serialize(n) == LittleEndian(n, 8)

\* bincode::deserialize of a u64
RECURSIVE bincode_deserialize(_)
bincode_deserialize(bytes) ==
    IF Len(bytes) = 0 THEN 0 ELSE bytes[1] + 256 * bincode_deserialize(Tail(bytes))

\* rusty_leveldb::DB get / put / delete
db_get(d, key) == IF key \in DOMAIN d THEN Some(d[key]) ELSE None
db_put(d, key, val) == [k \in DOMAIN d \cup {key} |-> IF k = key THEN val ELSE d[k]]
db_delete(d, key) == [k \in DOMAIN d \ {key} |-> d[k]]

Return(v) == [kind |-> "return", value |-> v]
Panic(msg, length, index) ==
    [kind |-> "panic", message |-> msg, length |-> length, index |-> index]
PanicMsg(msg) == [kind |-> "panic", message |-> msg]

\* DatabaseVector::set_length
set_length(d, length) == db_put(d, LENGTH_KEY, bincode_serialize(length))

\* DatabaseVector::delete
delete(d, index) == db_delete(d, bincode_serialize(index))

\* DatabaseVector::attempt_verify_empty
attempt_verify_empty(d) == db_get(d, bincode_serialize(INDEX_ZERO)) = None

\* DatabaseVector::len
len(d) == bincode_deserialize(d[LENGTH_KEY])

\* DatabaseVector::is_empty
is_empty(d) == len(d) = 0

\* DatabaseVector::new (the assertion holds of the empty store it is given)
new(d) == set_length(d, 0)

\* DatabaseVector::get
get(d, index) ==
    IF debug_assertions /\ ~(len(d) > index)
    THEN Panic("Cannot get outside of length", len(d), index)
    ELSE LET elem_as_bytes == db_get(d, bincode_serialize(index))
         IN IF elem_as_bytes = None
            THEN PanicMsg("called Option::unwrap() on a None value")
            ELSE Return(bincode_deserialize(elem_as_bytes[1]))

\* set() that also stores index + 1 as the length
set_and_truncate(d, index, value) ==
    IF debug_assertions /\ ~(len(d) > index)
    THEN [db |-> d, result |-> Panic("Cannot set outside of length", len(d), index)]
    ELSE [db |-> set_length(db_put(d, bincode_serialize(index), bincode_serialize(value)),
                            index + 1),
          result |-> Return("unit")]

\* DatabaseVector::set
set(d, index, value) ==
    IF debug_assertions /\ ~(len(d) > index)
    THEN [db |-> d, result |-> Panic("Cannot set outside of length", len(d), index)]
    ELSE [db |-> db_put(d, bincode_serialize(index), bincode_serialize(value)),
          result |-> Return("unit")]

\* a WriteBatch of puts, applied in order
RECURSIVE batch_put(_, _, _)
batch_put(d, indices_and_vals, k) ==
    IF k = 0 THEN d
    ELSE db_put(batch_put(d, indices_and_vals, k - 1),
                bincode_serialize(indices_and_vals[k][1]),
                bincode_serialize(indices_and_vals[k][2]))

\* the deletes of a WriteBatch for the indices from..to-1
RECURSIVE batch_delete(_, _, _)
batch_delete(d, from, to) ==
    IF from >= to THEN d
    ELSE batch_delete(db_delete(d, bincode_serialize(from)), from + 1, to)

\* the puts of a batch applied last pair first, so that the first pair listed wins
RECURSIVE batch_put_reversed(_, _, _)
batch_put_reversed(d, indices_and_vals, k) ==
    IF k > Len(indices_and_vals) THEN d
    ELSE db_put(batch_put_reversed(d, indices_and_vals, k + 1),
                bincode_serialize(indices_and_vals[k][1]),
                bincode_serialize(indices_and_vals[k][2]))

batch_set_first_wins(d, indices_and_vals) ==
    IF ~(\A k \in 1..Len(indices_and_vals) : indices_and_vals[k][1] < len(d))
    THEN [db |-> d,
          result |-> PanicMsg("All indices must be lower than length of vector")]
    ELSE [db |-> batch_put_reversed(d, indices_and_vals, 1), result |-> Return("unit")]

\* DatabaseVector::batch_set
batch_set(d, indices_and_vals) ==
    LET length == len(d)
    IN IF ~(\A k \in 1..Len(indices_and_vals) : indices_and_vals[k][1] < length)
       THEN [db |-> d,
             result |-> PanicMsg("All indices must be lower than length of vector")]
       ELSE [db |-> batch_put(d, indices_and_vals, Len(indices_and_vals)),
             result |-> Return("unit")]

\* DatabaseVector::overwrite_with_vec
overwrite_with_vec(d, new_vector) ==
    LET old_length == len(d)
        new_length == Len(new_vector)
        d1 == set_length(d, new_length)
        d2 == batch_put(d1, [i \in 1..new_length |-> <<i - 1, new_vector[i]>>], new_length)
    IN [db |-> batch_delete(d2, new_length, old_length), result |-> Return("unit")]

\* pop() that forgets to delete the stored element
pop_without_delete(d) ==
    IF len(d) = 0 THEN [db |-> d, result |-> Return(None)]
    ELSE [db |-> set_length(d, len(d) - 1),
          result |-> Return(Some(get(d, len(d) - 1).value))]

\* DatabaseVector::pop
pop(d) ==
    IF len(d) = 0
    THEN [db |-> d, result |-> Return(None)]
    ELSE LET length == len(d)
             element == get(d, length - 1)
         IN IF element.kind = "panic"
            THEN [db |-> d, result |-> element]
            ELSE [db |-> set_length(delete(d, length - 1), length - 1),
                  result |-> Return(Some(element.value))]

\* push() that stores the element one place too far
push_off_by_one(d, value) ==
    [db |-> set_length(db_put(d, bincode_serialize(len(d) + 1), bincode_serialize(value)),
                       len(d) + 1),
     result |-> Return("unit")]

\* DatabaseVector::push
push(d, value) ==
    LET length == len(d)
        index_bytes == bincode_serialize(length)
        value_bytes == bincode_serialize(value)
    IN [db |-> set_length(db_put(d, index_bytes, value_bytes), length + 1),
        result |-> Return("unit")]

Values == {17, 5558999}
Indices == 0..MaxLen
Pairs == Indices \X Values
\* batches of at most two pairs; two pairs are listed in the order of their indices
Batches ==
    {<<>>} \cup { <<p>> : p \in Pairs }
           \cup { <<pq[1], pq[2]>> : pq \in { r \in Pairs \X Pairs : r[1][1] <= r[2][1] } }
Vectors == UNION { [1..n -> Values] : n \in 0..MaxLen }

InitDB ==
    /\ table = NoTable
    /\ pargs = NoArgs
    /\ prePad = <<>>
    /\ padCalls = 0
    /\ verifier = NoTable
    /\ vargs = NoArgs
    /\ ext = NoTable
    /\ extPre = <<>>
    /\ extended = NoTable
    /\ eargs = NoArgs
    /\ extendCalls = 0
    /\ outcome = NoOutcome
    /\ attempt_verify_empty(EmptyDB)
    /\ db = new(EmptyDB)
    /\ debug_assertions \in BOOLEAN
    /\ dbOp = NoOp

DbStep(op, args, r) ==
    /\ db' = r.db
    /\ dbOp' = [op |-> op, args |-> args, pre |-> db, result |-> r.result]
    /\ UNCHANGED debug_assertions
    /\ UNCHANGED jsVars
    /\ UNCHANGED extVars

Push ==
    /\ len(db) < MaxLen
    /\ \E value \in Values : DbStep("push", <<value>>, push(db, value))

Pop == DbStep("pop", <<>>, pop(db))

Get == \E index \in Indices :
          DbStep("get", <<index>>, [db |-> db, result |-> get(db, index)])

Set == \E index \in Indices, value \in Values :
          DbStep("set", <<index, value>>, set(db, index, value))

BatchSet == \E indices_and_vals \in Batches :
          DbStep("batch_set", <<indices_and_vals>>, batch_set(db, indices_and_vals))

OverwriteWithVec == \E new_vector \in Vectors :
          DbStep("overwrite_with_vec", <<new_vector>>, overwrite_with_vec(db, new_vector))

NextDB == Push \/ Pop \/ Get \/ Set \/ BatchSet \/ OverwriteWithVec

SpecDB == InitDB /\ [][NextDB]_vars

(***************************************************************************)
(* Properties of JumpStackTable padding and construction (under Spec).     *)
(***************************************************************************)
PowersOfTwo == { 2^k : k \in 0..MaxRows }

SmallestPowerOfTwoAtLeast(n) ==
    CHOOSE m \in PowersOfTwo : m >= n /\ \A q \in PowersOfTwo : q >= n => m <= q

Clocks(data) == [i \in 1..Len(data) |-> data[i][CLK]]

\* C1: after pad() returns, a trace that had n rows has 0 rows if n = 0 and
\* otherwise exactly the smallest power of two >= n rows, and its first n rows
\* are the rows it had before.
C1_PadHeight ==
    padCalls >= 1 =>
        LET n == Len(prePad)
            m == Len(table.matrix)
        IN /\ m = (IF n = 0 THEN 0 ELSE SmallestPowerOfTwoAtLeast(n))
           /\ SubSeq(table.matrix, 1, n) = prePad

C1_Witness ==
    /\ padCalls >= 1
    /\ Len(prePad) = 5
    /\ Len(table.matrix) = 8

\* C2: pad() on a trace of 0 rows or of a power-of-two number of rows changes
\* nothing, and a second pad() leaves the result of the first as it is.
C2_PadIdempotent ==
    /\ (padCalls >= 1 /\ (Len(prePad) = 0 \/ Len(prePad) \in PowersOfTwo))
          => table.matrix = prePad
    /\ padCalls >= 2 => table.matrix = prePad

C2_Witness ==
    /\ padCalls = 2
    /\ Len(pargs.matrix) = 3
    /\ Len(prePad) = 4
    /\ table.matrix = prePad

\* C3: every row pad() appends equals the row before it in every column but
\* the clock, and its clock is (row count before the append - 1); a trace with
\* clocks [0,1,2] ends with clocks [0,1,2,2].
C3_PaddingRows ==
    padCalls >= 1 =>
        /\ \A i \in (Len(prePad) + 1)..Len(table.matrix) :
              table.matrix[i] = [table.matrix[i - 1] EXCEPT ![CLK] = (i - 1) - 1]
        /\ Clocks(prePad) = <<0, 1, 2>> => Clocks(table.matrix) = <<0, 1, 2, 2>>

C3_Witness ==
    /\ padCalls = 1
    /\ Clocks(prePad) = <<0, 1, 2>>
    /\ Clocks(table.matrix) = <<0, 1, 2, 2>>
    /\ table.matrix[4] = table.matrix[3]

SameArguments ==
    /\ table # NoTable
    /\ verifier # NoTable
    /\ vargs.generator = pargs.generator
    /\ vargs.order = pargs.order
    /\ vargs.num_randomizers = pargs.num_randomizers
    /\ vargs.padded_height = table.padded_height

\* C4: new_prover(g, o, r, trace) and new_verifier(g, o, r, h) with h the
\* prover's padded height give the same omicron, width, padded height, number
\* of randomizers, generator, order and transition constraints; the verifier's
\* trace is empty.
C4_ProverVerifierAgree ==
    SameArguments =>
        /\ verifier.omicron = table.omicron
        /\ verifier.width = table.width
        /\ verifier.padded_height = table.padded_height
        /\ verifier.num_randomizers = table.num_randomizers
        /\ verifier.generator = table.generator
        /\ verifier.order = table.order
        /\ base_transition_constraints(verifier) = base_transition_constraints(table)
        /\ verifier.matrix = <<>>
        /\ table.generator = pargs.generator
        /\ table.order = pargs.order
        /\ table.num_randomizers = pargs.num_randomizers

C4_Witness ==
    /\ SameArguments
    /\ Len(pargs.matrix) = 5
    /\ table.padded_height = 8
    /\ verifier.omicron = table.omicron
    /\ verifier.matrix = <<>>

\* C5: every pair of adjacent rows whose second row was appended by pad()
\* satisfies every polynomial of base_transition_constraints().
C5_PaddingSatisfiesConstraints ==
    padCalls >= 1 =>
        \A i \in 1..(Len(table.matrix) - 1) :
            i + 1 > Len(prePad) =>
                \A k \in 1..Len(base_transition_constraints(table)) :
                    MPolyEvaluate(base_transition_constraints(table)[k],
                                  table.matrix[i] \o table.matrix[i + 1]) = 0

C5_Witness ==
    /\ padCalls >= 1
    /\ Len(prePad) = 3
    /\ Len(table.matrix) = 4
    /\ base_transition_constraints(table) = <<>>

(***************************************************************************)
(* Properties of extension (under SpecExt).                                *)
(***************************************************************************)
\* C6: pad() on an ExtJumpStackTable always panics with "Extension tables
\* don't get padded" and leaves the extended trace as it was.
C6_ExtPadPanics ==
    outcome.op = "ext_pad" =>
        /\ outcome.result = "panic: Extension tables don't get padded"
        /\ ext.matrix = extPre

C6_Witness ==
    /\ outcome.op = "ext_pad"
    /\ Len(extPre) = 3
    /\ ext.matrix = extPre

\* the weights of the columns of a base row (clk, jsp, jso, jsd)
RowWeights(ch) == <<ch.clk_weight, ch.jsp_weight, ch.jso_weight, ch.jsd_weight>>

RECURSIVE CompressRow(_, _, _)
CompressRow(weights, row, c) ==
    IF c = 0 THEN XLift(0)
    ELSE XAdd(XMul(weights[c], XLift(row[c])), CompressRow(weights, row, c - 1))

PermStep(acc, gamma, weights, row) ==
    XMul(acc, XSub(gamma, CompressRow(weights, row, Len(row))))

RECURSIVE RunningProduct(_, _, _, _, _)
RunningProduct(initial, gamma, weights, rows, i) ==
    IF i = 0 THEN initial
    ELSE PermStep(RunningProduct(initial, gamma, weights, rows, i - 1),
                  gamma, weights, rows[i])

\* C7: extend(challenges, initials) returns an extended trace whose added
\* column holds acc_i = acc_(i-1) * (combination_challenge - sum_c weight_c *
\* column_c(row_i)) with acc_0 = initial; weights (2,3,5,7,11), row (1,2,3,4,5),
\* challenge 13 and initial 1 give -93 as the first step.
C7_ExtendRunningProduct ==
    /\ PermStep(XLift(1), XLift(13),
                <<XLift(2), XLift(3), XLift(5), XLift(7), XLift(11)>>,
                <<1, 2, 3, 4, 5>>) = XLift(FieldPrime - (93 % FieldPrime))
    /\ extendCalls >= 1 =>
          /\ outcome.op = "extend" => outcome.result = "returned"
          /\ extended # NoTable
          /\ Len(extended.matrix) = Len(eargs.matrix)
          /\ \A i \in 1..Len(eargs.matrix) :
                /\ SubSeq(extended.matrix[i], 1, BASE_WIDTH)
                      = [c \in 1..BASE_WIDTH |-> XLift(eargs.matrix[i][c])]
                /\ extended.matrix[i][FULL_WIDTH]
                      = RunningProduct(eargs.initials.processor_perm_initial,
                                       eargs.challenges.processor_perm_row_weight,
                                       RowWeights(eargs.challenges), eargs.matrix, i)

C9_PushAppends ==
    dbOp.op = "push" =>
        LET n == len(dbOp.pre)
        IN /\ len(db) = n + 1
           /\ get(db, len(db) - 1) = Return(dbOp.args[1])
           /\ \A i \in 0..(n - 1) :
                 /\ get(dbOp.pre, i).kind = "return"
                 /\ get(db, i) = get(dbOp.pre, i)

C9_Witness ==
    /\ dbOp.op = "push"
    /\ len(dbOp.pre) = 1
    /\ len(db) = 2
    /\ get(db, 1) = Return(5558999)
    /\ get(db, 0) = Return(17)

\* C10: pop() on an empty vector returns None and leaves len() = 0; on a
\* vector of length n > 0 it returns Some(element n-1), sets len() to n-1,
\* removes the stored element n-1 from the database and leaves every element
\* at an index < n-1 unchanged.
C10_PopRemovesLast ==
    dbOp.op = "pop" =>
        LET n == len(dbOp.pre)
        IN IF n = 0
           THEN dbOp.result = Return(None) /\ len(db) = 0
           ELSE /\ get(dbOp.pre, n - 1).kind = "return"
                /\ dbOp.result = Return(Some(get(dbOp.pre, n - 1).value))
                /\ len(db) = n - 1
                /\ bincode_serialize(n - 1) \notin DOMAIN db
                /\ \A i \in 0..(n - 2) :
                      /\ get(dbOp.pre, i).kind = "return"
                      /\ get(db, i) = get(dbOp.pre, i)

C10_Witness ==
    /\ dbOp.op = "pop"
    /\ len(dbOp.pre) = 2
    /\ dbOp.result = Return(Some(5558999))
    /\ len(db) = 1
    /\ get(db, 0) = Return(17)

\* C11: for every index i < len(), set(i, v) makes get(i) return v and leaves
\* len() and get(j) for every j # i unchanged; get() never changes the vector.
C11_SetFrame ==
    /\ (dbOp.op = "set" /\ dbOp.args[1] < len(dbOp.pre)) =>
          /\ dbOp.result = Return("unit")
          /\ get(db, dbOp.args[1]) = Return(dbOp.args[2])
          /\ len(db) = len(dbOp.pre)
          /\ \A j \in Indices \ {dbOp.args[1]} : get(db, j) = get(dbOp.pre, j)
    /\ dbOp.op = "get" => db = dbOp.pre

C11_Witness ==
    /\ dbOp.op = "set"
    /\ dbOp.args = <<0, 5558999>>
    /\ len(dbOp.pre) = 2
    /\ get(dbOp.pre, 0) = Return(17)
    /\ get(db, 0) = Return(5558999)
    /\ get(db, 1) = get(dbOp.pre, 1)
    /\ len(db) = 2

BatchIndices(indices_and_vals) ==
    { indices_and_vals[k][1] : k \in 1..Len(indices_and_vals) }

\* C12: every access with an index >= len() is rejected by a panic and writes
\* nothing: get(i) panics with "Cannot get outside of length. Length: L,
\* index: i", set(i, v) with "Cannot set outside of length. Length: L, index:
\* i", and batch_set panics before any write if one of its indices is >= len().
C12_OutOfRangePanics ==
    /\ (dbOp.op = "get" /\ dbOp.args[1] >= len(dbOp.pre)) =>
          /\ dbOp.result = Panic("Cannot get outside of length",
                                 len(dbOp.pre), dbOp.args[1])
          /\ db = dbOp.pre
    /\ (dbOp.op = "set" /\ dbOp.args[1] >= len(dbOp.pre)) =>
          /\ dbOp.result = Panic("Cannot set outside of length",
                                 len(dbOp.pre), dbOp.args[1])
          /\ db = dbOp.pre
    /\ (dbOp.op = "batch_set"
          /\ \E i \in BatchIndices(dbOp.args[1]) : i >= len(dbOp.pre)) =>
          /\ dbOp.result.kind = "panic"
          /\ db = dbOp.pre

\* the indices whose element key is stored in the database
StoredIndices(d) == { i \in Indices : bincode_serialize(i) \in DOMAIN d }

\* C13: after overwrite_with_vec(w) the vector equals w exactly: len() = |w|,
\* get(i) = w[i] for every i < |w|, and no element key with an index >= |w|
\* remains stored in the database.
C13_OverwriteExact ==
    dbOp.op = "overwrite_with_vec" =>
        LET w == dbOp.args[1]
        IN /\ len(db) = Len(w)
           /\ \A i \in 0..(Len(w) - 1) : get(db, i) = Return(w[i + 1])
           /\ \A i \in StoredIndices(db) : i < Len(w)

\* C14: batch_set(pairs) with every index < len() makes get(i) return v for
\* each listed pair (i, v), the last pair winning for an index listed more
\* than once, and leaves len() and every unlisted index unchanged.
C14_BatchSetFrame ==
    (dbOp.op = "batch_set"
        /\ \A i \in BatchIndices(dbOp.args[1]) : i < len(dbOp.pre)) =>
        LET pairs == dbOp.args[1]
        IN /\ dbOp.result = Return("unit")
           /\ \A k \in 1..Len(pairs) :
                 (\A l \in (k + 1)..Len(pairs) : pairs[l][1] # pairs[k][1])
                    => get(db, pairs[k][1]) = Return(pairs[k][2])
           /\ len(db) = len(dbOp.pre)
           /\ \A j \in Indices \ BatchIndices(pairs) : get(db, j) = get(dbOp.pre, j)

C14_Witness ==
    /\ dbOp.op = "batch_set"
    /\ dbOp.args[1] = << <<0, 17>>, <<0, 5558999>> >>
    /\ len(dbOp.pre) = 2
    /\ get(db, 0) = Return(5558999)
    /\ get(db, 1) = get(dbOp.pre, 1)

====
